---- MODULE Spec2Model ----
(***************************************************************************)
(* Request composables of src/composables: useRequest / useGetRequest      *)
(* (queries) and useRequestMutation / usePostRequest (mutations).          *)
(*                                                                         *)
(* The composables hand their options to useQuery / useMutation of         *)
(* @tanstack/vue-query (version 5: the result carries isPending) and       *)
(* return the observer's reactive fields.  The model follows the query     *)
(* client the composables drive: one cache entry per query key, one        *)
(* observer (query runner) per useRequest call, one mutation object per    *)
(* mutate call.  Components stay mounted for the whole run.                *)
(***************************************************************************)
EXTENDS Integers, Sequences, FiniteSets, TLC

\* ------------------------------------------------------------------ bounds
NumRunners == 2        \* useRequest call sites (query runners)
MaxMutations == 2      \* mutate / mutateAsync calls in one run
MaxOrphans == 1        \* abandoned producer calls outstanding per key
MaxInvalidations == 1  \* mutate calls in a run of the query side

\* -------------------------------------------------------- program constants
DefaultRetry == 3      \* retry = 3

PostsUrl == "postsUrl" \* 'https://jsonplaceholder.typicode.com/posts'

\* useGetRequest: queryKey: ['get', url]
GetKey(url) == <<"get", url>>

\* App.vue: useGetRequest(postsUrl)
AppQueryKey == GetKey(PostsUrl)

\* PostForm.vue: invalidateQueries: [['get', postsUrl]]
PostFormInvalidates == << <<"get", PostsUrl>> >>

\* ------------------------------------------------------------- input sets
Runners == 1..NumRunners
Keys == { <<"users">>, <<"users", "5">>, AppQueryKey }
KeySeq == << <<"users">>, <<"users", "5">>, AppQueryKey >>
RetryChoices == {0, 1, 2, DefaultRetry}
Values == {"v1", "v2"}
Variables == {"a", "b"}
MutationIds == 1..MaxMutations
InvalidateChoices ==
    { <<>>, << <<"users">> >>, PostFormInvalidates,
      << <<"users", "5">>, <<"users">> >> }
NoData == "absent"

VARIABLES
    retryOption,\* the retry option the useRequest calls of this run pass
    runner,     \* per useRequest call: mounted, queryKey, enabled, retry, ...
    cache,      \* per query key: the query's state in the QueryCache
    phase,      \* per query key: the current retryer: none / running / waiting
    orphans,    \* per query key: producer calls abandoned by a cancelled fetch
    attempts,   \* per query key: producer invocations of the fetch that runs or failed
    everFetched,\* per query key: a producer call was started at some time
    owed,       \* per query key: an invalidation was answered by no new call
    mopts,      \* the options of the useRequestMutation call
    mutations,  \* the mutation objects, one per mutate / mutateAsync call
    nmut,       \* number of mutate / mutateAsync calls so far
    current,    \* the mutation the observer follows (0: none)
    mresult,    \* the observer's result: what the returned refs show
    hlog        \* what the latest run of the onSuccess wrapper did, in order

qvars == <<retryOption, runner, cache, phase, orphans, attempts, everFetched, owed>>
mvars == <<mopts, mutations, nmut, current, mresult, hlog>>
vars == <<retryOption, runner, cache, phase, orphans, attempts, everFetched, owed,
          mopts, mutations, nmut, current, mresult, hlog>>

\* ---------------------------------------------------------- query options
\* useRequest(options): the defaults of the destructuring
UseRequestOptions(key, enabled, retry, focus) ==
    [ mounted |-> TRUE,
      queryKey |-> key,
      enabled |-> enabled,
      retry |-> retry,
      refetchOnWindowFocus |-> focus,
      passive |-> ~enabled ]

Unmounted ==
    [ mounted |-> FALSE, queryKey |-> <<>>, enabled |-> FALSE, retry |-> 0,
      refetchOnWindowFocus |-> FALSE, passive |-> TRUE ]

\* the state of a query that has no data yet
NewQuery ==
    [ exists |-> FALSE, data |-> NoData, status |-> "pending",
      fetchStatus |-> "idle", isInvalidated |-> FALSE, fresh |-> FALSE,
      failureCount |-> 0, hasError |-> FALSE,
      retry |-> DefaultRetry, cycleRetry |-> 0 ]

\* the shared query state as one value, for the operators below
QState ==
    [ cache |-> cache, phase |-> phase, orphans |-> orphans,
      attempts |-> attempts, everFetched |-> everFetched,
      owed |-> owed ]

\* (mutant) staleTime is not handed on: every entry counts as stale
IsStaleWithoutStaleTime(e) == TRUE

\* staleTime: an entry is stale when it has no data, was invalidated, or is
\* older than staleTime (fresh = FALSE)
IsStale(e) == e.data = NoData \/ e.isInvalidated \/ ~e.fresh

\* observers of key k that are mounted (and enabled)
Observers(rs, k) == { r \in Runners : rs[r].mounted /\ rs[r].queryKey = k }

\* (mutant) the enabled option is not looked at
ActiveObserversIgnoringEnabled(rs, k) == Observers(rs, k)

ActiveObservers(rs, k) == { r \in Observers(rs, k) : rs[r].enabled }

\* (mutant) isSuccess is taken from the presence of data
RunnerResultSuccessFromData(r) ==
    LET e == cache[runner[r].queryKey] IN
    [ data |-> e.data,
      hasError |-> e.hasError,
      isPending |-> e.status = "pending",
      isFetching |-> e.fetchStatus = "fetching",
      isError |-> e.status = "error",
      isSuccess |-> e.data # NoData ]

\* what the returned refs of runner r show: the state of its key's query
RunnerResult(r) ==
    LET e == cache[runner[r].queryKey] IN
    [ data |-> e.data,
      hasError |-> e.hasError,
      isPending |-> e.status = "pending",
      isFetching |-> e.fetchStatus = "fetching",
      isError |-> e.status = "error",
      isSuccess |-> e.status = "success" ]

\* the runner's state: idle while it has nothing and fetches nothing
RunnerState(r) ==
    LET res == RunnerResult(r) IN
    IF res.isPending /\ ~res.isFetching THEN "idle"
    ELSE IF res.isPending THEN "pending"
    ELSE IF res.isError THEN "error" ELSE "success"

\* ------------------------------------------------------- the query's fetch
\* (mutant) every fetch starts from the pending state, as a first fetch does
StartFetchResettingStatus(q, k, retry) ==
    LET e == q.cache[k] IN
    [q EXCEPT
        !.cache[k] = [e EXCEPT !.fetchStatus = "fetching",
                               !.failureCount = 0,
                               !.retry = retry,
                               !.cycleRetry = retry,
                               !.status = "pending",
                               !.hasError = FALSE],
        !.phase[k] = "running",
        !.attempts[k] = 1,
        !.everFetched[k] = TRUE,
        !.owed[k] = FALSE]

\* Query.fetch, no fetch running: the 'fetch' reducer and a new retryer whose
\* first step invokes the producer (queryFn)
StartFetch(q, k, retry) ==
    LET e == q.cache[k] IN
    [q EXCEPT
        !.cache[k] = [e EXCEPT !.fetchStatus = "fetching",
                               !.failureCount = 0,
                               !.retry = retry,
                               !.cycleRetry = retry,
                               !.status = IF e.data = NoData THEN "pending" ELSE @,
                               !.hasError = IF e.data = NoData THEN FALSE ELSE @],
        !.phase[k] = "running",
        !.attempts[k] = 1,
        !.everFetched[k] = TRUE,
        !.owed[k] = FALSE]

\* Query.cancel({silent: true}): the retryer is rejected and its result will be
\* dropped; queryFn never reads the abort signal, so a producer call that is
\* running keeps running
CancelSilent(q, k) ==
    [q EXCEPT !.orphans[k] = IF q.phase[k] = "running" THEN @ + 1 ELSE @,
              !.phase[k] = "none"]

\* (mutant) every fetch request starts a producer call of its own
QueryFetchNeverJoins(q, k, retry, cancelRefetch) ==
    IF q.cache[k].fetchStatus # "idle"
    THEN StartFetch(CancelSilent(q, k), k, retry)
    ELSE StartFetch(q, k, retry)

\* Query.fetch(options, {cancelRefetch}): a fetch that is running is joined,
\* unless the query has data and the caller asked to cancel it
QueryFetch(q, k, retry, cancelRefetch) ==
    LET e == q.cache[k] IN
    IF e.fetchStatus # "idle"
    THEN IF e.data # NoData /\ cancelRefetch
         THEN StartFetch(CancelSilent(q, k), k, retry)
         ELSE q
    ELSE StartFetch(q, k, retry)

\* (mutant) one retry too many
ShouldRetryOffByOne(failureCount, retry) == failureCount <= retry

\* the retryer's decision after a failure: retry is a count
ShouldRetry(failureCount, retry) == failureCount < retry

\* whether a fetch with cancelRefetch would abandon a running producer call
WouldOrphan(k) ==
    cache[k].fetchStatus # "idle" /\ cache[k].data # NoData /\ phase[k] = "running"

SetQ(q) ==
    /\ cache' = q.cache
    /\ phase' = q.phase
    /\ orphans' = q.orphans
    /\ attempts' = q.attempts
    /\ everFetched' = q.everFetched
    /\ owed' = q.owed

\* the query exists once an observer was built for its key; the observer's
\* options become the query's options
BuildQuery(q, k, retry) ==
    [q EXCEPT !.cache[k] = [@ EXCEPT !.exists = TRUE, !.retry = retry]]

\* ----------------------------------------------------------- query actions
\* useRequest(options) in a component's setup: the observer is created and
\* subscribed; it fetches on mount when enabled and the entry is stale
UseRequest(r, key, enabled, retry, focus) ==
    /\ ~runner[r].mounted
    /\ runner' = [runner EXCEPT ![r] = UseRequestOptions(key, enabled, retry, focus)]
    /\ LET q1 == BuildQuery(QState, key, retry) IN
       IF enabled /\ IsStale(q1.cache[key])
       THEN SetQ(QueryFetch(q1, key, retry, FALSE))
       ELSE SetQ(q1)
    /\ UNCHANGED <<retryOption, mvars>>

\* the enabled ref changes: observer.setOptions
SetEnabled(r, b) ==
    /\ runner[r].mounted
    /\ runner[r].enabled # b
    /\ runner' = [runner EXCEPT ![r].enabled = b, ![r].passive = @ /\ ~b]
    /\ LET k == runner[r].queryKey
           q1 == BuildQuery(QState, k, runner[r].retry) IN
       IF b /\ IsStale(q1.cache[k])
       THEN SetQ(QueryFetch(q1, k, runner[r].retry, FALSE))
       ELSE SetQ(q1)
    /\ UNCHANGED <<retryOption, mvars>>

\* refetch(): observer.refetch, cancelRefetch defaults to true
Refetch(r) ==
    /\ runner[r].mounted
    /\ LET k == runner[r].queryKey IN
       /\ WouldOrphan(k) => orphans[k] < MaxOrphans
       /\ runner' = [runner EXCEPT ![r].passive = FALSE]
       /\ SetQ(QueryFetch(QState, k, runner[r].retry, TRUE))
    /\ UNCHANGED <<retryOption, mvars>>

\* the observers of k that refetch when the window regains focus
FocusObservers(k) ==
    { r \in ActiveObservers(runner, k) :
        runner[r].refetchOnWindowFocus /\ IsStale(cache[k]) }

RECURSIVE FocusAll(_, _)
FocusAll(q, i) ==
    IF i > Len(KeySeq) THEN q
    ELSE LET k == KeySeq[i]
             obs == FocusObservers(k) IN
         IF obs = {} THEN FocusAll(q, i + 1)
         ELSE LET r == CHOOSE x \in obs : \A y \in obs : x <= y IN
              FocusAll(QueryFetch(q, k, runner[r].retry, FALSE), i + 1)

\* the window regains focus: every query asks its first willing observer
WindowFocus ==
    /\ \E k \in Keys : FocusObservers(k) # {}
    /\ SetQ(FocusAll(QState, 1))
    /\ UNCHANGED <<retryOption, runner, mvars>>

\* the producer resolves: the 'success' reducer
ProducerSucceeds(k, v) ==
    /\ phase[k] = "running"
    /\ cache' = [cache EXCEPT ![k] =
                    [@ EXCEPT !.data = v, !.status = "success",
                              !.fetchStatus = "idle", !.isInvalidated = FALSE,
                              !.fresh = TRUE, !.failureCount = 0,
                              !.hasError = FALSE]]
    /\ phase' = [phase EXCEPT ![k] = "none"]
    /\ attempts' = [attempts EXCEPT ![k] = 0]
    /\ UNCHANGED <<retryOption, runner, orphans, everFetched, owed>>
    /\ UNCHANGED mvars

\* (mutant) giving up also drops the data
ProducerFailsErasingData(k) ==
    /\ phase[k] = "running"
    /\ IF ShouldRetry(cache[k].failureCount, cache[k].cycleRetry)
       THEN /\ cache' = [cache EXCEPT ![k].failureCount = @ + 1]
            /\ phase' = [phase EXCEPT ![k] = "waiting"]
       ELSE /\ cache' = [cache EXCEPT ![k] =
                            [@ EXCEPT !.status = "error", !.hasError = TRUE,
                                      !.fetchStatus = "idle", !.data = NoData,
                                      !.failureCount = @ + 1]]
            /\ phase' = [phase EXCEPT ![k] = "none"]
    /\ UNCHANGED <<retryOption, runner, orphans, attempts, everFetched, owed>>
    /\ UNCHANGED mvars

\* (mutant) a query whose runners are all disabled gives up at once
ProducerFailsNoRetryWhenDisabled(k) ==
    /\ phase[k] = "running"
    /\ IF /\ ShouldRetry(cache[k].failureCount, cache[k].cycleRetry)
          /\ ActiveObservers(runner, k) # {}
       THEN /\ cache' = [cache EXCEPT ![k].failureCount = @ + 1]
            /\ phase' = [phase EXCEPT ![k] = "waiting"]
       ELSE /\ cache' = [cache EXCEPT ![k] =
                            [@ EXCEPT !.status = "error", !.hasError = TRUE,
                                      !.fetchStatus = "idle",
                                      !.failureCount = @ + 1]]
            /\ phase' = [phase EXCEPT ![k] = "none"]
    /\ UNCHANGED <<retryOption, runner, orphans, attempts, everFetched, owed>>
    /\ UNCHANGED mvars

\* (mutant) giving up leaves the fetching flag up
ProducerFailsLeavingFetching(k) ==
    /\ phase[k] = "running"
    /\ IF ShouldRetry(cache[k].failureCount, cache[k].cycleRetry)
       THEN /\ cache' = [cache EXCEPT ![k].failureCount = @ + 1]
            /\ phase' = [phase EXCEPT ![k] = "waiting"]
       ELSE /\ cache' = [cache EXCEPT ![k] =
                            [@ EXCEPT !.status = "error", !.hasError = TRUE,
                                      !.failureCount = @ + 1]]
            /\ phase' = [phase EXCEPT ![k] = "none"]
    /\ UNCHANGED <<retryOption, runner, orphans, attempts, everFetched, owed>>
    /\ UNCHANGED mvars

\* the producer rejects: the retryer either waits for a retry ('failed'
\* reducer) or gives up ('error' reducer, which keeps data)
ProducerFails(k) ==
    /\ phase[k] = "running"
    /\ IF ShouldRetry(cache[k].failureCount, cache[k].cycleRetry)
       THEN /\ cache' = [cache EXCEPT ![k].failureCount = @ + 1]
            /\ phase' = [phase EXCEPT ![k] = "waiting"]
       ELSE /\ cache' = [cache EXCEPT ![k] =
                            [@ EXCEPT !.status = "error", !.hasError = TRUE,
                                      !.fetchStatus = "idle",
                                      !.failureCount = @ + 1]]
            /\ phase' = [phase EXCEPT ![k] = "none"]
    /\ UNCHANGED <<retryOption, runner, orphans, attempts, everFetched, owed>>
    /\ UNCHANGED mvars

\* the retry delay is over: the retryer invokes the producer again
RetryFires(k) ==
    /\ phase[k] = "waiting"
    /\ phase' = [phase EXCEPT ![k] = "running"]
    /\ attempts' = [attempts EXCEPT ![k] = @ + 1]
    /\ owed' = [owed EXCEPT ![k] = FALSE]
    /\ UNCHANGED <<retryOption, runner, cache, orphans, everFetched>>
    /\ UNCHANGED mvars

\* an abandoned producer call returns: its result is dropped
OrphanReturns(k) ==
    /\ orphans[k] > 0
    /\ orphans' = [orphans EXCEPT ![k] = @ - 1]
    /\ UNCHANGED <<retryOption, runner, cache, phase, attempts, everFetched, owed>>
    /\ UNCHANGED mvars

\* staleTime has passed since the entry was fetched
StaleTimeElapses(k) ==
    /\ cache[k].data # NoData
    /\ cache[k].fresh
    /\ cache' = [cache EXCEPT ![k].fresh = FALSE]
    /\ UNCHANGED <<retryOption, runner, phase, orphans, attempts, everFetched, owed>>
    /\ UNCHANGED mvars

\* ------------------------------------------------------------ invalidation
\* (mutant) only the very key is matched
MatchKeyExact(key, pattern) == key = pattern

\* partialMatchKey: the pattern is a prefix of the key
MatchKey(key, pattern) ==
    /\ Len(pattern) <= Len(key)
    /\ \A i \in 1..Len(pattern) : key[i] = pattern[i]

\* the entries queryClient.invalidateQueries({queryKey}) finds
Matching(q, pattern) == { k \in Keys : q.cache[k].exists /\ MatchKey(k, pattern) }

\* (mutant) the matching entries are reset: their value is dropped
MarkInvalidatedDroppingData(q, pattern) ==
    [q EXCEPT !.cache = [k \in Keys |->
        IF k \in Matching(q, pattern)
        THEN [q.cache[k] EXCEPT !.isInvalidated = TRUE, !.data = NoData,
                                !.status = "pending", !.hasError = FALSE]
        ELSE q.cache[k]]]

\* query.invalidate() on every matching entry
MarkInvalidated(q, pattern) ==
    [q EXCEPT !.cache = [k \in Keys |->
        IF k \in Matching(q, pattern)
        THEN [q.cache[k] EXCEPT !.isInvalidated = TRUE]
        ELSE q.cache[k]]]

\* (mutant) the entries are marked and nothing is refetched
RefetchNone(q, pattern, i) == q

\* refetchQueries({type: 'active'}): every matching query that has an enabled
\* observer is fetched with cancelRefetch = true
RECURSIVE RefetchActive(_, _, _)

RefetchActive(q, pattern, i) ==
    IF i > Len(KeySeq) THEN q
    ELSE LET k == KeySeq[i] IN
         IF k \in Matching(q, pattern) /\ ActiveObservers(runner, k) # {}
         THEN LET joins == q.cache[k].fetchStatus # "idle" /\ q.cache[k].data = NoData
                  q1 == QueryFetch(q, k, q.cache[k].retry, TRUE)
              IN RefetchActive(IF joins THEN [q1 EXCEPT !.owed[k] = TRUE] ELSE q1,
                               pattern, i + 1)
         ELSE RefetchActive(q, pattern, i + 1)

\* queryClient.invalidateQueries({ queryKey })
InvalidateQueries(q, pattern) == RefetchActive(MarkInvalidated(q, pattern), pattern, 1)

Event(op, key) == [op |-> op, key |-> key]

\* the onSuccess the composable hands to useMutation: what it does, in order
RECURSIVE InvalidateEach(_, _, _)
InvalidateEach(h, list, i) ==
    IF i > Len(list) THEN h
    ELSE InvalidateEach([q |-> InvalidateQueries(h.q, list[i]),
                         log |-> Append(h.log, Event("invalidate", list[i]))],
                        list, i + 1)

CallOnSuccess(h, opts) ==
    IF opts.hasOnSuccess
    THEN [h EXCEPT !.log = Append(@, Event("onSuccess", <<>>))]
    ELSE h

\* (mutant) the caller's callback first, the invalidations after it
WrapperOnSuccessCallbackFirst(q, opts) ==
    InvalidateEach(CallOnSuccess([q |-> q, log |-> <<>>], opts),
                   opts.invalidateQueries, 1)

WrapperOnSuccess(q, opts) ==
    CallOnSuccess(InvalidateEach([q |-> q, log |-> <<>>], opts.invalidateQueries, 1),
                  opts)

\* --------------------------------------------------------------- mutations
NoMutation ==
    [ status |-> "none", variables |-> "none", form |-> "none",
      promise |-> "none", observed |-> FALSE, execCalls |-> 0,
      execVariables |-> "none", onSuccessCalls |-> 0, onErrorCalls |-> 0,
      late |-> FALSE ]

\* the observer's result when it follows no mutation
IdleResult == [ status |-> "idle", data |-> NoData, hasError |-> FALSE ]

\* (mutant) a call made while a mutation is pending is merged into it
MutateDeduplicated(form, v) ==
    /\ nmut < MaxMutations
    /\ LET id == nmut + 1
           merged == current # 0 /\ mutations[current].status = "pending" IN
       /\ nmut' = id
       /\ mutations' = [m \in MutationIds |->
            IF m = id
            THEN [ status |-> IF merged THEN "success" ELSE "pending",
                   variables |-> v, form |-> form,
                   promise |-> "pending", observed |-> ~merged,
                   execCalls |-> IF merged THEN 0 ELSE 1,
                   execVariables |-> v, onSuccessCalls |-> 0, onErrorCalls |-> 0,
                   late |-> FALSE ]
            ELSE IF merged THEN mutations[m]
                 ELSE [mutations[m] EXCEPT !.observed = FALSE]]
       /\ current' = IF merged THEN current ELSE id
       /\ mresult' = [ status |-> "pending", data |-> NoData, hasError |-> FALSE ]
    /\ UNCHANGED <<qvars, mopts, hlog>>

\* mutate(variables) / mutateAsync(variables): the observer leaves the mutation
\* it followed, builds a new one and executes it; the executor is invoked
Mutate(form, v) ==
    /\ nmut < MaxMutations
    /\ LET id == nmut + 1 IN
       /\ nmut' = id
       /\ mutations' = [m \in MutationIds |->
            IF m = id
            THEN [ status |-> "pending", variables |-> v, form |-> form,
                   promise |-> "pending", observed |-> TRUE, execCalls |-> 1,
                   execVariables |-> v, onSuccessCalls |-> 0, onErrorCalls |-> 0,
                   late |-> FALSE ]
            ELSE [mutations[m] EXCEPT !.observed = FALSE]]
       /\ current' = id
       /\ mresult' = [ status |-> "pending", data |-> NoData, hasError |-> FALSE ]
    /\ UNCHANGED <<qvars, mopts, hlog>>

\* (mutant) every mutation of the runner reports to the observer
NotifiesAlways(id) == TRUE

\* whether the observer still follows mutation id
Notifies(id) == mutations[id].observed

\* the executor resolves: the wrapper's onSuccess runs, then the 'success'
\* reducer; the observer hears of it when it still follows the mutation
ExecutorSucceeds(id, d) ==
    /\ mutations[id].status = "pending"
    /\ LET h == WrapperOnSuccess(QState, mopts) IN
       /\ SetQ(h.q)
       /\ hlog' = h.log
    /\ mutations' = [mutations EXCEPT ![id].status = "success",
                                      ![id].promise = "resolved",
                                      ![id].late = ~Notifies(id),
                                      ![id].onSuccessCalls =
                                          IF mopts.hasOnSuccess THEN @ + 1 ELSE @]
    /\ mresult' = IF Notifies(id)
                  THEN [ status |-> "success", data |-> d, hasError |-> FALSE ]
                  ELSE mresult
    /\ UNCHANGED <<retryOption, runner, mopts, nmut, current>>

\* the onError the composable hands to useMutation
WrapperOnError(m, opts) ==
    IF opts.hasOnError THEN [m EXCEPT !.onErrorCalls = @ + 1] ELSE m

\* (mutant) without an onError callback the failure leaves no trace in the state
ExecutorFailsSwallowed(id) ==
    /\ mutations[id].status = "pending"
    /\ mutations' = [mutations EXCEPT ![id] =
            [WrapperOnError(@, mopts) EXCEPT !.status = "error",
                                             !.promise = "rejected",
                                             !.late = ~Notifies(id)]]
    /\ mresult' = IF Notifies(id) /\ mopts.hasOnError
                  THEN [ status |-> "error", data |-> NoData, hasError |-> TRUE ]
                  ELSE mresult
    /\ UNCHANGED <<qvars, mopts, nmut, current, hlog>>

\* (mutant) the invalidations run when the mutation settles, failed or not
ExecutorFailsInvalidating(id) ==
    /\ mutations[id].status = "pending"
    /\ LET h == InvalidateEach([q |-> QState, log |-> <<>>],
                               mopts.invalidateQueries, 1) IN
       /\ SetQ(h.q)
       /\ hlog' = h.log
    /\ mutations' = [mutations EXCEPT ![id] =
            [WrapperOnError(@, mopts) EXCEPT !.status = "error",
                                             !.promise = "rejected",
                                             !.late = ~Notifies(id)]]
    /\ mresult' = IF Notifies(id)
                  THEN [ status |-> "error", data |-> NoData, hasError |-> TRUE ]
                  ELSE mresult
    /\ UNCHANGED <<retryOption, runner, mopts, nmut, current>>

\* the executor rejects: the wrapper's onError runs, then the 'error' reducer;
\* the promise of mutate / mutateAsync rejects
ExecutorFails(id) ==
    /\ mutations[id].status = "pending"
    /\ mutations' = [mutations EXCEPT ![id] =
            [WrapperOnError(@, mopts) EXCEPT !.status = "error",
                                             !.promise = "rejected",
                                             !.late = ~Notifies(id)]]
    /\ mresult' = IF Notifies(id)
                  THEN [ status |-> "error", data |-> NoData, hasError |-> TRUE ]
                  ELSE mresult
    /\ UNCHANGED <<qvars, mopts, nmut, current, hlog>>

\* what the returned refs of the mutation runner show
MutationRunnerResult ==
    [ data |-> mresult.data,
      hasError |-> mresult.hasError,
      isPending |-> mresult.status = "pending",
      isError |-> mresult.status = "error",
      isSuccess |-> mresult.status = "success" ]

\* reset(): the observer leaves its mutation and shows the idle result
Reset ==
    /\ current # 0
    /\ mutations' = [mutations EXCEPT ![current].observed = FALSE]
    /\ current' = 0
    /\ mresult' = IdleResult
    /\ UNCHANGED <<qvars, mopts, nmut, hlog>>

\* ----------------------------------------------------------- specification
InitQueries ==
    /\ retryOption \in RetryChoices
    /\ runner = [r \in Runners |-> Unmounted]
    /\ cache = [k \in Keys |-> NewQuery]
    /\ phase = [k \in Keys |-> "none"]
    /\ orphans = [k \in Keys |-> 0]
    /\ attempts = [k \in Keys |-> 0]
    /\ everFetched = [k \in Keys |-> FALSE]
    /\ owed = [k \in Keys |-> FALSE]

InitMutations ==
    /\ mutations = [m \in MutationIds |-> NoMutation]
    /\ nmut = 0
    /\ current = 0
    /\ mresult = IdleResult
    /\ hlog = <<>>

\* The demo application: the runners are useGetRequest(postsUrl) calls with
\* any options but retry = 1, the mutation runner is PostForm.vue's
\* (both callbacks given, used through mutate, invalidating the list's key)
PostFormOptions ==
    [ invalidateQueries |-> PostFormInvalidates,
      hasOnSuccess |-> TRUE, hasOnError |-> TRUE ]

Init ==
    /\ InitQueries
    /\ retryOption = 1
    /\ InitMutations
    /\ mopts = PostFormOptions

Next ==
    \/ \E r \in Runners, en \in BOOLEAN, f \in BOOLEAN :
          UseRequest(r, GetKey(PostsUrl), en, retryOption, f)
    \/ \E r \in Runners, b \in BOOLEAN : SetEnabled(r, b)
    \/ \E r \in Runners : Refetch(r)
    \/ WindowFocus
    \/ \E k \in Keys, v \in Values : ProducerSucceeds(k, v)
    \/ \E k \in Keys : ProducerFails(k)
    \/ \E k \in Keys : RetryFires(k)
    \/ \E k \in Keys : OrphanReturns(k)
    \/ \E k \in Keys : StaleTimeElapses(k)
    \/ nmut < MaxInvalidations /\ Mutate("mutate", "a")
    \/ \E id \in MutationIds : ExecutorSucceeds(id, "v1")

Spec == Init /\ [][Next]_vars

\* Retries: enabled useGetRequest(postsUrl) runners with every retry count
RetryInit ==
    /\ InitQueries
    /\ InitMutations
    /\ mopts = PostFormOptions

RetryNext ==
    \/ \E r \in Runners : UseRequest(r, GetKey(PostsUrl), TRUE, retryOption, FALSE)
    \/ \E r \in Runners : Refetch(r)
    \/ \E k \in Keys, v \in Values : ProducerSucceeds(k, v)
    \/ \E k \in Keys : ProducerFails(k)
    \/ \E k \in Keys : RetryFires(k)
    \/ \E k \in Keys : OrphanReturns(k)
    \/ \E k \in Keys : StaleTimeElapses(k)

RetrySpec == RetryInit /\ [][RetryNext]_vars

\* Invalidation over several keys: runners without retries on any keys, a
\* mutation runner with any non-empty invalidateQueries list
InvalidationInit ==
    /\ InitQueries
    /\ retryOption = 0
    /\ InitMutations
    /\ mopts \in [ invalidateQueries : InvalidateChoices \ {<<>>},
                   hasOnSuccess : {TRUE}, hasOnError : {TRUE} ]

InvalidationNext ==
    \/ \E r \in Runners, k \in Keys, en \in BOOLEAN :
          UseRequest(r, k, en, retryOption, FALSE)
    \/ \E k \in Keys : ProducerSucceeds(k, "v1")
    \/ \E k \in Keys : ProducerFails(k)
    \/ \E k \in Keys : OrphanReturns(k)
    \/ \E k \in Keys : StaleTimeElapses(k)
    \/ nmut < MaxInvalidations /\ Mutate("mutate", "a")
    \/ \E id \in MutationIds : ExecutorSucceeds(id, "v1")
    \/ \E id \in MutationIds : ExecutorFails(id)

InvalidationSpec == InvalidationInit /\ [][InvalidationNext]_vars

\* The mutation runner: every configuration and both call forms, over a cache
\* entry that one query runner fills
MutationInit ==
    /\ InitQueries
    /\ retryOption = 0
    /\ InitMutations
    /\ mopts \in [ invalidateQueries : {<<>>, << <<"users", "5">>, <<"users">> >>},
                   hasOnSuccess : BOOLEAN, hasOnError : BOOLEAN ]

MutationNext ==
    \/ \E form \in {"mutate", "mutateAsync"}, v \in Variables : Mutate(form, v)
    \/ \E id \in MutationIds : ExecutorSucceeds(id, "v1")
    \/ \E id \in MutationIds : ExecutorFails(id)
    \/ Reset
    \/ UseRequest(1, <<"users", "5">>, TRUE, retryOption, FALSE)
    \/ ProducerSucceeds(<<"users", "5">>, "v1")

MutationSpec == MutationInit /\ [][MutationNext]_vars

\* the producer call of the fetch that runs for key k settles
ProducerReturns(k) ==
    \/ \E v \in Values : ProducerSucceeds(k, v)
    \/ ProducerFails(k)

\* Progress: the runs of RetrySpec in which the producer call of a running
\* fetch settles (the fetch promise of queryFn resolves or rejects) and the
\* retry timer fires; what the callers do is left open
LiveSpec ==
    /\ RetryInit
    /\ [][RetryNext]_vars
    /\ \A k \in Keys : WF_vars(ProducerReturns(k)) /\ WF_vars(RetryFires(k))

\* Disabling: useGetRequest(postsUrl) runners with every retry count whose
\* enabled ref changes; nobody calls refetch(), so every fetch was started by
\* an enabled runner
DisableInit ==
    /\ InitQueries
    /\ InitMutations
    /\ mopts = PostFormOptions

DisableNext ==
    \/ \E r \in Runners, en \in BOOLEAN :
          UseRequest(r, GetKey(PostsUrl), en, retryOption, FALSE)
    \/ \E r \in Runners, b \in BOOLEAN : SetEnabled(r, b)
    \/ \E k \in Keys, v \in Values : ProducerSucceeds(k, v)
    \/ \E k \in Keys : ProducerFails(k)
    \/ \E k \in Keys : RetryFires(k)
    \/ \E k \in Keys : StaleTimeElapses(k)

DisableSpec == DisableInit /\ [][DisableNext]_vars

\* The status flags: the list query of the demo with and without enabled,
\* refetched and failing without retries, next to PostForm's mutation runner
\* used through mutate and reset
StatusInit ==
    /\ InitQueries
    /\ retryOption = 0
    /\ InitMutations
    /\ mopts = PostFormOptions

StatusNext ==
    \/ \E r \in Runners, en \in BOOLEAN :
          UseRequest(r, GetKey(PostsUrl), en, retryOption, FALSE)
    \/ \E r \in Runners : Refetch(r)
    \/ \E k \in Keys : ProducerSucceeds(k, "v1")
    \/ \E k \in Keys : ProducerFails(k)
    \/ \E k \in Keys : OrphanReturns(k)
    \/ Mutate("mutate", "a")
    \/ \E id \in MutationIds : ExecutorSucceeds(id, "v1")
    \/ \E id \in MutationIds : ExecutorFails(id)
    \/ Reset

StatusSpec == StatusInit /\ [][StatusNext]_vars

\* ------------------------------------------------------------------ claims
\* producer calls of key k that were started and have not returned
Outstanding(k) == orphans[k] + (IF phase[k] = "running" THEN 1 ELSE 0)

\* a step in which runner r is activated or its enabled flag changes
Activates(r) ==
    \/ ~runner[r].mounted /\ runner'[r].mounted
    \/ runner[r].mounted /\ runner'[r].enabled # runner[r].enabled

\* C1 as stated: in every reachable state at most one producer call is
\* outstanding for each key.
C1_AtMostOneProducerCall == \A k \in Keys : Outstanding(k) <= 1

\* C1 amended: a key that has no data yet never has more than one producer
\* call outstanding, and a step that activates or enables a runner while a
\* producer call of its key is running joins that call: it abandons nothing
\* and invokes the producer no further time.
C1_ActivationsJoinTheRunningFetch ==
    /\ [](\A k \in Keys : cache[k].data = NoData => Outstanding(k) <= 1)
    /\ [][\A r \in Runners :
            LET k == runner'[r].queryKey IN
            (Activates(r) /\ phase[k] = "running")
                => /\ phase'[k] = "running"
                   /\ orphans'[k] = orphans[k]
                   /\ attempts'[k] = attempts[k]]_vars

\* two enabled runners are mounted on one key whose first fetch is running:
\* the producer was invoked once
C1_Witness ==
    \E k \in Keys :
        /\ Cardinality(ActiveObservers(runner, k)) = 2
        /\ cache[k].data = NoData
        /\ phase[k] = "running"
        /\ attempts[k] = 1
        /\ Outstanding(k) = 1

\* C5 as stated: a runner that has been disabled since its activation (and
\* never called refetch) is in the idle state.
C5_DisabledRunnerStaysIdle ==
    \A r \in Runners :
        (runner[r].mounted /\ runner[r].passive) => RunnerState(r) = "idle"

\* C5 amended: as long as every runner of a key has been disabled since its
\* activation, the key's producer has never been invoked and these runners are
\* idle, whatever activations, invalidations and window focus events happened;
\* and activating a disabled runner starts, abandons and retries no producer
\* call of its key.  (The runner's refs show the key's shared cache entry, so
\* it leaves idle when another runner fetches the key.)
C5_DisabledRunnerStartsNoFetch ==
    /\ [](\A k \in Keys :
            (Observers(runner, k) # {} /\ \A r \in Observers(runner, k) : runner[r].passive)
                => /\ ~everFetched[k]
                   /\ Outstanding(k) = 0
                   /\ \A r \in Observers(runner, k) : RunnerState(r) = "idle")
    /\ [][\A r \in Runners :
            LET k == runner'[r].queryKey IN
            (~runner[r].mounted /\ runner'[r].mounted /\ ~runner'[r].enabled)
                => /\ phase'[k] = phase[k]
                   /\ orphans'[k] = orphans[k]
                   /\ attempts'[k] = attempts[k]
                   /\ cache'[k].fetchStatus = cache[k].fetchStatus]_vars

\* a disabled runner with refetchOnWindowFocus set is alone on a key that a
\* successful mutation invalidated: nothing was fetched
C5_Witness ==
    \E r \in Runners :
        /\ runner[r].mounted /\ runner[r].passive
        /\ runner[r].refetchOnWindowFocus
        /\ Observers(runner, runner[r].queryKey) = {r}
        /\ cache[runner[r].queryKey].isInvalidated
        /\ ~everFetched[runner[r].queryKey]

\* C6: a fetch invokes the producer at most retry + 1 times, a query that has
\* settled in error invoked it exactly retry + 1 times in that fetch, and a
\* step into the error state leaves absent data absent.
C6_RetryBound ==
    /\ [](\A k \in Keys :
            /\ attempts[k] <= cache[k].cycleRetry + 1
            /\ (cache[k].status = "error" /\ cache[k].fetchStatus = "idle")
                => /\ attempts[k] = cache[k].cycleRetry + 1
                   /\ phase[k] = "none")
    /\ [][\A k \in Keys :
            (cache[k].data = NoData /\ cache'[k].status = "error")
                => cache'[k].data = NoData]_vars

\* the producer failed on every call with retry = 2: three invocations, the
\* query is in error and has no data
C6_Witness ==
    \E k \in Keys :
        /\ cache[k].cycleRetry = 2
        /\ cache[k].status = "error"
        /\ cache[k].fetchStatus = "idle"
        /\ attempts[k] = 3
        /\ cache[k].data = NoData

\* C10: a step that leaves a query in error leaves its data as it was: a
\* failure after the retries keeps the value the key held.
C10_ErrorKeepsData ==
    [][\A k \in Keys :
        cache'[k].status = "error" => cache'[k].data = cache[k].data]_vars

\* a query that held a value has settled in error and still holds the value
C10_Witness ==
    \E k \in Keys :
        /\ cache[k].status = "error"
        /\ cache[k].fetchStatus = "idle"
        /\ cache[k].data \in Values

\* a step in which the executor of some mutation resolves
SuccessStep ==
    \E id \in MutationIds :
        mutations[id].status = "pending" /\ mutations'[id].status = "success"

IsPrefix(p, k) == Len(p) <= Len(k) /\ SubSeq(k, 1, Len(p)) = p

\* key k equals, or starts with, a pattern of the invalidateQueries list
Listed(k) ==
    \E i \in 1..Len(mopts.invalidateQueries) : IsPrefix(mopts.invalidateQueries[i], k)

\* a step that invokes the producer of key k in a new fetch
NewCall(k) ==
    /\ phase'[k] = "running"
    /\ attempts'[k] = 1
    /\ phase[k] # "running" \/ orphans'[k] > orphans[k]

\* C3: the invalidation of a successful mutation marks stale every cache entry
\* whose key equals or starts with a listed pattern, keeping its value, and
\* leaves every other entry, its fetch included, exactly as it was.
C3_InvalidationMatchesByPrefix ==
    [][SuccessStep =>
        \A k \in Keys :
            IF cache[k].exists /\ Listed(k)
            THEN /\ cache'[k].isInvalidated
                 /\ cache'[k].data = cache[k].data
            ELSE /\ cache'[k] = cache[k]
                 /\ phase'[k] = phase[k]
                 /\ orphans'[k] = orphans[k]
                 /\ attempts'[k] = attempts[k]]_vars

\* ["users"] was invalidated: the entry of ["users", "5"] is stale and keeps
\* its value, the fresh entry of ['get', postsUrl] is untouched
C3_Witness ==
    /\ mopts.invalidateQueries = << <<"users">> >>
    /\ \E id \in MutationIds : mutations[id].status = "success"
    /\ cache[<<"users", "5">>].isInvalidated
    /\ cache[<<"users", "5">>].data \in Values
    /\ cache[AppQueryKey].data \in Values
    /\ cache[AppQueryKey].fresh
    /\ ~cache[AppQueryKey].isInvalidated

\* C4 as stated: an invalidation that reached a query with an enabled runner
\* is answered by a new producer call; the query never settles as successful
\* and not stale while that call is still owed.
C4_InvalidationAlwaysRefetches ==
    \A k \in Keys :
        ~(owed[k] /\ cache[k].fetchStatus = "idle" /\ ~cache[k].isInvalidated)

\* C4 amended: the invalidation of a successful mutation marks every listed
\* entry stale and, in the same step, starts a new producer call for every
\* listed entry that has a mounted enabled runner, except an entry whose
\* first fetch (no data yet) is running: that fetch is joined, nothing new is
\* invoked.
C4_InvalidationRefetchesUnlessFirstFetchRuns ==
    [][SuccessStep =>
        \A k \in Keys :
            (cache[k].exists /\ Listed(k))
                => /\ cache'[k].isInvalidated
                   /\ ActiveObservers(runner, k) # {}
                        => IF cache[k].fetchStatus = "fetching" /\ cache[k].data = NoData
                           THEN /\ phase'[k] = phase[k]
                                /\ attempts'[k] = attempts[k]
                                /\ orphans'[k] = orphans[k]
                           ELSE NewCall(k)]_vars

\* the demo: PostForm's mutation succeeded and the list query of App.vue,
\* which had data, is stale and being fetched again
C4_Witness ==
    /\ mopts.invalidateQueries = PostFormInvalidates
    /\ \E id \in MutationIds : mutations[id].status = "success"
    /\ ActiveObservers(runner, AppQueryKey) # {}
    /\ cache[AppQueryKey].data \in Values
    /\ cache[AppQueryKey].isInvalidated
    /\ cache[AppQueryKey].fetchStatus = "fetching"
    /\ phase[AppQueryKey] = "running"

\* positions of the events of one kind in the log of the onSuccess wrapper
Positions(op) == { i \in 1..Len(hlog) : hlog[i].op = op }

\* C2 as stated: no invalidation of a successful mutation precedes the call of
\* the caller's onSuccess.
C2_OnSuccessBeforeInvalidation ==
    \A i \in Positions("invalidate"), j \in Positions("onSuccess") : j < i

\* C2 amended: on a successful mutation every key of the invalidateQueries
\* list is invalidated, in list order, before the caller's onSuccess is
\* called, and onSuccess is called once, last, when it was given.
C2_InvalidationBeforeOnSuccess ==
    /\ \A i \in Positions("invalidate"), j \in Positions("onSuccess") : i < j
    /\ (\E id \in MutationIds : mutations[id].status = "success")
        => /\ Len(hlog) = Len(mopts.invalidateQueries)
                            + (IF mopts.hasOnSuccess THEN 1 ELSE 0)
           /\ \A i \in 1..Len(mopts.invalidateQueries) :
                hlog[i] = Event("invalidate", mopts.invalidateQueries[i])
           /\ mopts.hasOnSuccess => hlog[Len(hlog)].op = "onSuccess"

\* a mutation with two keys to invalidate and an onSuccess callback succeeded
C2_Witness ==
    /\ Cardinality(Positions("invalidate")) = 2
    /\ Cardinality(Positions("onSuccess")) = 1
    /\ \E id \in MutationIds : mutations[id].onSuccessCalls = 1

\* C7: while the runner follows no mutation (from reset() to the next mutate)
\* its state is idle with data and error absent, also when the executor of a
\* mutation it was reset from returns in the meantime.
C7_ResetIgnoresLateResult ==
    current = 0 => mresult = IdleResult

\* reset() was called while the executor ran, and the executor has returned
C7_Witness ==
    /\ current = 0
    /\ \E id \in MutationIds :
        mutations[id].late /\ mutations[id].status \in {"success", "error"}
    /\ mresult = IdleResult

\* a step in which the executor of mutation id rejects
FailureStep(id) ==
    mutations[id].status = "pending" /\ mutations'[id].status = "error"

\* C8 as stated: whenever an executor fails, the runner's error state is set.
C8_EveryFailureSetsErrorState ==
    [][\A id \in MutationIds :
        FailureStep(id) => (mresult'.status = "error" /\ mresult'.hasError)]_vars

\* C8 amended: when an executor fails, onError is called once if it was given,
\* the promise of the call rejects, and the runner's error state is set,
\* with or without onError, provided the runner still follows that call (no
\* reset() and no later mutate since); the failure of a call the runner left
\* shows in onError and in the promise only.
C8_FailureIsSurfaced ==
    [][\A id \in MutationIds :
        FailureStep(id)
            => /\ mutations'[id].onErrorCalls = (IF mopts.hasOnError THEN 1 ELSE 0)
               /\ mutations'[id].promise = "rejected"
               /\ current = id => (mresult'.status = "error" /\ mresult'.hasError)
               /\ current # id => mresult' = mresult]_vars

\* a mutateAsync call failed on a runner without onError: the error state is
\* set and the promise is rejected
C8_Witness ==
    /\ ~mopts.hasOnError
    /\ current # 0
    /\ mutations[current].status = "error"
    /\ mutations[current].form = "mutateAsync"
    /\ mutations[current].promise = "rejected"
    /\ mresult.status = "error"

\* a step in which mutate or mutateAsync is called
MutateStep == nmut' = nmut + 1

\* C9: each of the nmut calls of mutate / mutateAsync invoked the executor
\* once, with its own variables, whatever the state of the earlier calls, and
\* every call puts the runner in a fresh pending state.
C9_OneExecutorCallPerMutate ==
    /\ [](\A id \in MutationIds :
            IF id <= nmut
            THEN /\ mutations[id].execCalls = 1
                 /\ mutations[id].execVariables = mutations[id].variables
            ELSE mutations[id].execCalls = 0)
    /\ [][MutateStep =>
            /\ current' = nmut'
            /\ mutations'[nmut'].status = "pending"
            /\ mresult' = [ status |-> "pending", data |-> NoData, hasError |-> FALSE ]
            /\ \A id \in 1..nmut : mutations'[id].status = mutations[id].status]_vars

\* two calls overlap: both executors are running, each with its variables
C9_Witness ==
    /\ nmut = 2
    /\ mutations[1].status = "pending" /\ mutations[2].status = "pending"
    /\ mutations[1].execVariables = "a" /\ mutations[2].execVariables = "b"
    /\ mutations[1].execCalls + mutations[2].execCalls = 2

\* C11: refetch() on a query that has data invokes the producer in a new
\* fetch, fresh entry or not, leaving data and status as they were and
\* raising isFetching; and no step that leaves such a query fetching changes
\* its data or takes it back to pending.
C11_RefetchKeepsData ==
    /\ [][\A r \in Runners :
            (Refetch(r) /\ cache[runner[r].queryKey].data # NoData)
                => LET k == runner[r].queryKey IN
                   /\ NewCall(k)
                   /\ cache'[k].fetchStatus = "fetching"
                   /\ cache'[k].data = cache[k].data
                   /\ cache'[k].status = cache[k].status
                   /\ cache'[k].fresh = cache[k].fresh]_vars
    /\ [][\A k \in Keys :
            (cache[k].data # NoData /\ cache'[k].fetchStatus = "fetching")
                => /\ cache'[k].data = cache[k].data
                   /\ cache'[k].status # "pending"]_vars

\* a fresh entry that nobody invalidated is being fetched again: only
\* refetch() starts that fetch; the runner shows success, isFetching, the value
C11_Witness ==
    \E r \in Runners :
        /\ runner[r].mounted
        /\ cache[runner[r].queryKey].fresh
        /\ ~cache[runner[r].queryKey].isInvalidated
        /\ phase[runner[r].queryKey] = "running"
        /\ attempts[runner[r].queryKey] = 1
        /\ RunnerResult(r).isSuccess
        /\ RunnerResult(r).isFetching
        /\ RunnerResult(r).data \in Values

\* the entry of key k holds a value younger than staleTime that nobody
\* invalidated
FreshEntry(k) == cache[k].data # NoData /\ cache[k].fresh /\ ~cache[k].isInvalidated

\* a step that activates runner r, or enables it, on a fresh entry
ActivatesOnFresh(r) ==
    /\ Activates(r)
    /\ runner'[r].enabled
    /\ FreshEntry(runner'[r].queryKey)

\* the step invokes, abandons and retries no producer call of key k
NoProducerActivity(k) ==
    /\ phase'[k] = phase[k]
    /\ attempts'[k] = attempts[k]
    /\ orphans'[k] = orphans[k]
    /\ cache'[k].fetchStatus = cache[k].fetchStatus

\* C12 as stated: an enabled runner activated on a fresh entry shows the
\* cached value, is in success and invokes no producer.
C12_FreshActivationEntersSuccess ==
    [][\A r \in Runners :
        ActivatesOnFresh(r)
            => LET k == runner'[r].queryKey IN
               /\ cache'[k].data = cache[k].data
               /\ cache'[k].status = "success"
               /\ NoProducerActivity(k)]_vars

\* C12 amended: an enabled runner activated on a fresh entry shows the cached
\* value and invokes no producer; it shows the status the entry has, which is
\* success unless the last refetch of the key failed: then it is error, with
\* the cached value.
C12_FreshActivationServesCache ==
    [][\A r \in Runners :
        ActivatesOnFresh(r)
            => LET k == runner'[r].queryKey IN
               /\ cache'[k].data = cache[k].data
               /\ cache'[k].status = cache[k].status
               /\ cache'[k].status \in {"success", "error"}
               /\ cache'[k].status = "error" => cache'[k].hasError
               /\ NoProducerActivity(k)]_vars

\* two enabled runners share a fresh entry whose last refetch failed: both
\* show the error and the value, nothing is being fetched
C12_Witness ==
    \E k \in Keys :
        /\ Cardinality(ActiveObservers(runner, k)) = 2
        /\ FreshEntry(k)
        /\ cache[k].status = "error"
        /\ cache[k].fetchStatus = "idle"
        /\ Outstanding(k) = 0

\* C13: a step that leaves an entry invalidated leaves its value as it was:
\* the invalidation keeps the value, and so does every step until a producer
\* call succeeds; every runner mounted on the key reads that value throughout.
C13_InvalidatedEntryKeepsValue ==
    [][\A k \in Keys :
        cache'[k].isInvalidated
            => /\ cache'[k].data = cache[k].data
               /\ \A r \in Observers(runner, k) :
                    RunnerResult(r)'.data = RunnerResult(r).data]_vars

\* ["users", "5"] was invalidated through ["users"] and is being fetched
\* again: its runner still reads the value
C13_Witness ==
    \E r \in Runners :
        /\ runner[r].mounted
        /\ runner[r].queryKey = <<"users", "5">>
        /\ \E id \in MutationIds : mutations[id].status = "success"
        /\ cache[<<"users", "5">>].isInvalidated
        /\ cache[<<"users", "5">>].fetchStatus = "fetching"
        /\ RunnerResult(r).data \in Values
        /\ RunnerResult(r).isSuccess

\* a step in which the enabled flag of runner r goes from true to false
Disables(r) == runner[r].mounted /\ runner[r].enabled /\ ~runner'[r].enabled

\* key k has runners and all of them are disabled, before and after the step
AllDisabled(k) ==
    /\ Observers(runner, k) # {}
    /\ ActiveObservers(runner, k) = {}
    /\ ActiveObservers(runner', k) = {}

\* C14 as stated: disabling a runner leaves the fetch of its key running, and
\* while all runners of a key are disabled no retry is scheduled and no retry
\* invokes the producer.
C14_DisablingStopsRetries ==
    /\ [][\A r \in Runners :
            Disables(r) => NoProducerActivity(runner[r].queryKey)]_vars
    /\ [][\A k \in Keys :
            AllDisabled(k)
                => /\ phase'[k] = "waiting" => phase[k] = "waiting"
                   /\ phase'[k] = "running" => phase[k] = "running"]_vars

\* C14 amended: disabling a runner cancels nothing: the fetch of its key and
\* its failure count are left as they are, a fetch that ends writes its result
\* to the entry, and a fetch gives up only after retry + 1 producer calls,
\* whether or not the runners were disabled in between.
C14_DisablingCancelsNothing ==
    /\ [][\A r \in Runners :
            Disables(r)
                => LET k == runner[r].queryKey IN
                   /\ NoProducerActivity(k)
                   /\ cache'[k] = cache[k]]_vars
    /\ [][\A k \in Keys :
            (phase[k] = "running" /\ phase'[k] = "none")
                => /\ cache'[k].fetchStatus = "idle"
                   /\ \/ cache'[k].status = "success" /\ cache'[k].data \in Values
                      \/ cache'[k].status = "error" /\ cache'[k].data = cache[k].data]_vars
    /\ [](\A k \in Keys :
            (cache[k].status = "error" /\ cache[k].fetchStatus = "idle")
                => attempts[k] = cache[k].cycleRetry + 1)

\* all runners of a key are disabled while its fetch, started when one was
\* enabled, is in its second producer call
C14_Witness ==
    \E k \in Keys :
        /\ Observers(runner, k) # {}
        /\ ActiveObservers(runner, k) = {}
        /\ cache[k].fetchStatus = "fetching"
        /\ phase[k] = "running"
        /\ attempts[k] = 2

\* a step that cancels the fetch of key k, its retries included, and starts a
\* new one: refetch() or an invalidation reaching an entry that has data
Restarts(k) ==
    /\ cache[k].fetchStatus = "fetching"
    /\ phase[k] # "none"
    /\ phase'[k] = "running"
    /\ attempts'[k] = 1
    /\ phase[k] = "waiting" \/ orphans'[k] > orphans[k]

C16_FailureInvalidatesNothing ==
    [][\A id \in MutationIds :
        FailureStep(id)
            => /\ cache' = cache
               /\ phase' = phase
               /\ attempts' = attempts
               /\ orphans' = orphans
               /\ hlog' = hlog
               /\ mutations'[id].onSuccessCalls = 0]_vars

\* a mutation whose list names the key of a fresh entry with an enabled
\* runner has failed: the entry is fresh, not invalidated and not refetched
C16_Witness ==
    \E k \in Keys :
        /\ Listed(k)
        /\ \E id \in MutationIds : mutations[id].status = "error"
        /\ ActiveObservers(runner, k) # {}
        /\ FreshEntry(k)
        /\ cache[k].fetchStatus = "idle"
        /\ hlog = <<>>

\* at most one of the three flags is up
AtMostOne(a, b, c) == ~(a /\ b) /\ ~(a /\ c) /\ ~(b /\ c)

\* C17: every mounted query runner and the mutation runner show at most one
\* of isPending, isSuccess and isError; a query runner shows isSuccess only
\* with a value that a producer call delivered, the mutation runner only
\* when the executor of the call it follows has resolved.
C17_StatusFlags ==
    /\ \A r \in Runners :
            runner[r].mounted
                => LET res == RunnerResult(r) IN
                   /\ AtMostOne(res.isPending, res.isSuccess, res.isError)
                   /\ res.isSuccess
                        => /\ res.data \in Values
                           /\ everFetched[runner[r].queryKey]
    /\ LET m == MutationRunnerResult IN
       /\ AtMostOne(m.isPending, m.isSuccess, m.isError)
       /\ m.isSuccess
            => /\ current # 0
               /\ mutations[current].status = "success"
               /\ m.data \in Values

\* a query runner shows the error of a failed refetch next to the value, the
\* mutation runner shows the success of its second call after the first failed
C17_Witness ==
    /\ \E r \in Runners :
            /\ runner[r].mounted
            /\ RunnerResult(r).isError
            /\ RunnerResult(r).data \in Values
    /\ current = 2
    /\ mutations[1].status = "error"
    /\ MutationRunnerResult.isSuccess

====
